---- MODULE Spec2Model ----
(***************************************************************************)
(* A model of infra/slave.py: the worker ("slave") of the distributed test *)
(* system.  These state machines are described:                            *)
(*                                                                         *)
(*   SpecCache   RetryCache driven directly by put and get calls           *)
(*   Spec        Slave.run, Slave.run_task and Slave.handle_sigterm        *)
(*   SpecRunner  Slave.run_command_and_touch_task on a clock of ticks      *)
(*   FairSpecRunner  the same, with fairness                               *)
(*   SpecTask    Slave.run_task with the clock of its subprocesses         *)
(*   SpecLock    Slave._get_exclusive_cache_dir in several processes       *)
(*                                                                         *)
(* The source is read with the meaning its authors gave it: file() (lines  *)
(* 98 and 205) opens a file, and the output read from the pipes is text.   *)
(* Calls whose code is outside this file (the broker client, the results   *)
(* store) return as run and run_task expect them to; the calls this file   *)
(* guards with try/except may also raise, and so may urlopen.              *)
(***************************************************************************)
EXTENDS Integers, Sequences, FiniteSets, TLC

(***************************************************************************)
(* Bounds of the model.  RetryCache takes max_size and max_count as        *)
(* constructor parameters (defaults 100 and 10); the model instantiates    *)
(* them with small values.                                                 *)
(***************************************************************************)
MaxSize == 2

MaxCount == 2

NumRetryIds == 2

MaxRetries == 1

MaxTimeout == 2

MaxTime == 24

TicksPerSecond == 1

NumWorkers == 2

RetryIds == 1 .. NumRetryIds

\* the items of the calls made on a RetryCache alone: one more than it can hold
Items == 1 .. (MaxSize + 1)

(***************************************************************************)
(* Program constants.                                                      *)
(***************************************************************************)
NUM_DOWNLOAD_ATTEMPTS_PER_TASK == 3

MaxFailedTasks == 100

\* the value of run_task's rc before it is assigned (None)
RcNone == -999

\* run_command_and_touch_task: the wait of select, the delay from the graceful
\* signal's deadline to the forced kill's, and the heartbeat interval, in seconds
SELECT_TIMEOUT == 2

KILL_GRACE == 5

TOUCH_INTERVAL == 10

\* download_task_files: the timeout of the two download commands, in seconds
DOWNLOAD_TIMEOUT == 600

\* download_task_files_with_retries: the sleep between two attempts, in seconds
RETRY_SLEEP == 5

\* _get_exclusive_cache_dir: the number of candidate cache directories
NumCacheDirs == 16

VARIABLES
  cache,      \* RetryCache.cache: the OrderedDict, as a sequence in insertion order
  hits,       \* history: per retry id, the gets that returned the item since its last put
  rcLast,     \* history: the last RetryCache call made directly (SpecCache)
  pc,         \* where the main thread is in Slave.run / Slave.run_task
  cur_task,   \* Slave.cur_task: "None", or "Held" (the latest reservation)
  is_busy,    \* Slave.is_busy
  task,       \* the Task of the latest reservation
  rc,         \* run_task's local rc: RcNone, 0, 1 (any non-zero exit) or -2
  out,        \* run_task's local stderr: "None", "captured" or "dl_error"
  rem,        \* download_task_files_with_retries: attempts left after the current one
  h,          \* history of the latest reservation: calls made on its handle and for its task
  rpc,        \* where run_command_and_touch_task is
  rnow,       \* the clock: ticks since the Popen of run_command_and_touch_task
  timeout,    \* its timeout argument, in seconds
  child,      \* the subprocess: "none", "running" or "exited"
  need,       \* how many ticks the child takes to exit once it gets SIGTERM, or Never
  select_by,  \* the tick at which the pending select times out
  last_touch, \* the local last_touch
  rh,         \* history of the run: the signals sent, the child's exit, the touches
  wpc,        \* per worker process: where it is in _get_exclusive_cache_dir
  idx,        \* per worker process: the loop variable i
  isdir,      \* the candidates i whose directory <base>.<i> exists
  lockf,      \* per candidate i: the process holding the lock of <base>.<i>.lock
  cache_dir   \* per worker process: Slave.cache_dir, the directory it was given

cacheVars == <<cache, hits, rcLast>>

mainVars == <<pc, cur_task, is_busy, task, rc, out, rem, h>>

runnerVars == <<rpc, rnow, timeout, child, need, select_by, last_touch, rh>>

lockVars == <<wpc, idx, isdir, lockf, cache_dir>>

(***************************************************************************)
(* RetryCache                                                              *)
(***************************************************************************)
Keys(c) == {c[i].item : i \in DOMAIN c}

IndexOf(c, item) == CHOOSE i \in DOMAIN c : c[i].item = item

RemoveAt(c, i) == SubSeq(c, 1, i - 1) \o SubSeq(c, i + 1, Len(c))

\* get's return value: TRUE when it returns the item, FALSE when it returns None
RetryCacheGet(c, item) == item \in Keys(c)

\* get with the eviction left out
RetryCacheAfterGet_NoEvict(c, item) ==
  IF item \notin Keys(c) THEN c
  ELSE [c EXCEPT ![IndexOf(c, item)].count = @ + 1]

\* the dictionary after get(item)
RetryCacheAfterGet(c, item) ==
  IF item \notin Keys(c) THEN c
  ELSE LET i == IndexOf(c, item)
           count == c[i].count
       IN  IF count > MaxCount THEN RemoveAt(c, i)
           ELSE [c EXCEPT ![i].count = count + 1]

\* OrderedDict.popitem() with its default last=True: the pair inserted last goes
PopItem(c) == SubSeq(c, 1, Len(c) - 1)

\* put that makes room for nothing
RetryCachePut_NoEvict(c, item) ==
  IF item \in Keys(c)
  THEN [c EXCEPT ![IndexOf(c, item)].count = 0]
  ELSE Append(c, [item |-> item, count |-> 0])

\* the dictionary after put(item); assigning to a key already present keeps its place
RetryCachePut(c, item) ==
  LET c1 == IF Len(c) = MaxSize THEN PopItem(c) ELSE c
  IN  IF item \in Keys(c1)
      THEN [c1 EXCEPT ![IndexOf(c1, item)].count = 0]
      ELSE Append(c1, [item |-> item, count |-> 0])

HitsAfterGet(c, n, item) ==
  IF RetryCacheGet(c, item) THEN [n EXCEPT ![item] = @ + 1] ELSE n

NoCall == [op |-> "none", item |-> 0, before |-> <<>>, present |-> FALSE]

CacheInit ==
  /\ cache = <<>>
  /\ hits = [r \in RetryIds \cup Items |-> 0]
  /\ rcLast = NoCall

(***************************************************************************)
(* Slave: the values of the main loop's state                              *)
(***************************************************************************)
Tasks == [retry_id : RetryIds, attempt : 0 .. MaxRetries, max_retries : 0 .. MaxRetries]

NoTask == [retry_id |-> 0, attempt |-> 0, max_retries |-> 0]

\* what count_num_failed_tasks may answer: around the threshold of run_task
FailedCounts == {MaxFailedTasks, MaxFailedTasks + 1}

\* what a call of a master endpoint may come to: status SUCCESS, another status,
\* or an exception (urlopen, read or json.loads raising)
Replies == {"SUCCESS", "FAIL", "ERR"}

NoHistory ==
  [rel |-> 0, sigrel |-> 0, del |-> 0, touched |-> FALSE,
   lookup |-> "none", disp |-> "none",
   mark_running |-> 0, verdict |-> "none", workdir |-> "none", downloads |-> 0, commands |-> 0,
   finished |-> 0, rep_rc |-> RcNone, rep_out |-> "None",
   num_failed |-> -1, call |-> "none", reply |-> "none", puts |-> 0]

MainInit ==
  /\ pc = "loop_top"
  /\ cur_task = "None"
  /\ is_busy = FALSE
  /\ task = NoTask
  /\ rc = RcNone
  /\ out = "None"
  /\ rem = 0
  /\ h = NoHistory

\* the main thread neither left by os._exit nor died of an uncaught exception
Alive == pc \notin {"exited", "crashed"}

(***************************************************************************)
(* Slave.run                                                               *)
(***************************************************************************)
\* run, lines 399-402: the top of the loop.  With cur_task None nothing refers to
\* the last reservation any more, and its history is dropped.
LoopTop ==
  /\ pc = "loop_top"
  /\ is_busy' = FALSE
  /\ h' = IF cur_task = "None" THEN NoHistory ELSE h
  /\ pc' = "reserve"
  /\ UNCHANGED <<cur_task, task, rc, out, rem, cacheVars, runnerVars, lockVars>>

\* run, line 403: reserve_task returns a reservation
ReserveOk ==
  /\ pc = "reserve"
  /\ \E t \in Tasks : task' = t
  /\ cur_task' = "Held"
  /\ h' = NoHistory
  /\ rc' = RcNone
  /\ out' = "None"
  /\ rem' = 0
  /\ pc' = "got"
  /\ UNCHANGED <<is_busy, cacheVars, runnerVars, lockVars>>

\* run, lines 403-405: reserve_task raises; cur_task keeps what it held
ReserveFails ==
  /\ pc = "reserve"
  /\ pc' = "reserve_sleep"
  /\ UNCHANGED <<cur_task, is_busy, task, rc, out, rem, h, cacheVars, runnerVars, lockVars>>

\* run, lines 406-407
ReserveSleep ==
  /\ pc = "reserve_sleep"
  /\ pc' = "loop_top"
  /\ UNCHANGED <<cur_task, is_busy, task, rc, out, rem, h, cacheVars, runnerVars, lockVars>>

\* run, line 411: the anti-affinity lookup
Consult ==
  /\ pc = "got"
  /\ LET present == RetryCacheGet(cache, task.retry_id)
     IN  /\ h' = [h EXCEPT !.lookup = IF present THEN "present" ELSE "absent"]
         /\ pc' = IF present THEN "bounce" ELSE "dispatch"
  /\ cache' = RetryCacheAfterGet(cache, task.retry_id)
  /\ hits' = HitsAfterGet(cache, hits, task.retry_id)
  /\ UNCHANGED <<cur_task, is_busy, task, rc, out, rem, rcLast, runnerVars, lockVars>>

\* the bounce with delete called in place of release
BounceRelease_Deletes ==
  /\ pc = "bounce"
  /\ h' = [h EXCEPT !.del = @ + 1, !.disp = "bounced"]
  /\ pc' = "bounce_sleep"
  /\ UNCHANGED <<cur_task, is_busy, task, rc, out, rem, cacheVars, runnerVars, lockVars>>

\* run, lines 412-414: release the reservation
BounceRelease ==
  /\ pc = "bounce"
  /\ h' = [h EXCEPT !.rel = @ + 1, !.disp = "bounced"]
  /\ pc' = "bounce_sleep"
  /\ UNCHANGED <<cur_task, is_busy, task, rc, out, rem, cacheVars, runnerVars, lockVars>>

\* run, lines 415-416: sleep 5 s and continue; cur_task is not cleared
BounceSleep ==
  /\ pc = "bounce_sleep"
  /\ pc' = "loop_top"
  /\ UNCHANGED <<cur_task, is_busy, task, rc, out, rem, h, cacheVars, runnerVars, lockVars>>

\* run, lines 418-419: hand the reservation to run_task
Dispatch ==
  /\ pc = "dispatch"
  /\ is_busy' = TRUE
  /\ h' = [h EXCEPT !.disp = "executor"]
  /\ pc' = "mark_running"
  /\ UNCHANGED <<cur_task, task, rc, out, rem, cacheVars, runnerVars, lockVars>>

(***************************************************************************)
(* Slave.run_task                                                          *)
(***************************************************************************)
\* run_task going on whatever mark_task_running answered
MarkRunning_Ungated ==
  /\ pc = "mark_running"
  /\ \E accepted \in BOOLEAN :
       /\ h' = [h EXCEPT !.mark_running = @ + 1,
                         !.verdict = IF accepted THEN "accepted" ELSE "canceled"]
       /\ pc' = "make_dir"
  /\ UNCHANGED <<cur_task, is_busy, task, rc, out, rem, cacheVars, runnerVars, lockVars>>

\* run_task, lines 224-226: mark_task_running; a canceled task returns at once
MarkRunning ==
  /\ pc = "mark_running"
  /\ \E accepted \in BOOLEAN :
       /\ h' = [h EXCEPT !.mark_running = @ + 1,
                         !.verdict = IF accepted THEN "accepted" ELSE "canceled"]
       /\ pc' = IF accepted THEN "make_dir" ELSE "delete"
  /\ UNCHANGED <<cur_task, is_busy, task, rc, out, rem, cacheVars, runnerVars, lockVars>>

\* run_task, lines 228-236: the locals, and the work directory
MakeTempDir ==
  /\ pc = "make_dir"
  /\ rc' = RcNone
  /\ out' = "None"
  /\ h' = [h EXCEPT !.workdir = "exists"]
  /\ rem' = NUM_DOWNLOAD_ATTEMPTS_PER_TASK - 1
  /\ pc' = "download"
  /\ UNCHANGED <<cur_task, is_busy, task, cacheVars, runnerVars, lockVars>>

\* download_task_files, lines 171-187: one attempt starts its download subprocesses
StartDownload ==
  /\ pc = "download"
  /\ h' = [h EXCEPT !.downloads = @ + 1]
  /\ pc' = "downloading"
  /\ UNCHANGED <<cur_task, is_busy, task, rc, out, rem, cacheVars, runnerVars, lockVars>>

\* what follows a failed attempt: download_task_files_with_retries lines 212-220,
\* and run_task lines 240-246 when the last attempt's exception is raised again
DownloadFailed ==
  IF rem = 0
  THEN /\ rc' = -2
       /\ out' = "dl_error"
       /\ pc' = "mark_finished"
  ELSE /\ pc' = "dl_sleep"
       /\ UNCHANGED <<rc, out>>

\* download_task_files lines 188-205 and its caller, lines 209-215, 238-239
DownloadDone ==
  /\ pc = "downloading"
  /\ \E ok \in BOOLEAN :
       IF ok THEN pc' = "start_cmd" /\ UNCHANGED <<rc, out>>
       ELSE DownloadFailed
  /\ UNCHANGED <<cur_task, is_busy, task, rem, h, cacheVars, runnerVars, lockVars>>

\* download_task_files_with_retries, lines 216-220, and the next round of the
\* loop: the directory is emptied (rmtree, then makedirs of the same path) and is
\* there again when the handler sleeps
DownloadSleep ==
  /\ pc = "dl_sleep"
  /\ h' = [h EXCEPT !.workdir = "exists"]
  /\ rem' = rem - 1
  /\ pc' = "download"
  /\ UNCHANGED <<cur_task, is_busy, task, rc, out, cacheVars, runnerVars, lockVars>>

\* run_task, lines 249-273, to the Popen of run_command_and_touch_task
StartCommand ==
  /\ pc = "start_cmd"
  /\ h' = [h EXCEPT !.commands = @ + 1]
  /\ pc' = "running"
  /\ UNCHANGED <<cur_task, is_busy, task, rc, out, rem, cacheVars, runnerVars, lockVars>>

\* run_command_and_touch_task, lines 358-365: a heartbeat while a subprocess runs
Touch ==
  /\ pc \in {"downloading", "running"}
  /\ h' = [h EXCEPT !.touched = TRUE]
  /\ UNCHANGED <<pc, cur_task, is_busy, task, rc, out, rem, cacheVars, runnerVars, lockVars>>

\* the logs kept whatever the result
ReportedLogs_Kept(code, captured) == captured

\* run_task, lines 275-278: the logs of a success are dropped
ReportedLogs(code, captured) == IF code = 0 THEN "None" ELSE captured

\* run_task, lines 270-280: the command ends with a result code and its output
CommandDone ==
  /\ pc = "running"
  /\ \E code \in {0, 1} :
       /\ rc' = code
       /\ out' = ReportedLogs(code, "captured")
  /\ pc' = "mark_finished"
  /\ UNCHANGED <<cur_task, is_busy, task, rem, h, cacheVars, runnerVars, lockVars>>

\* run_task, lines 282-290
MarkFinished ==
  /\ pc = "mark_finished"
  /\ h' = [h EXCEPT !.finished = @ + 1, !.rep_rc = rc, !.rep_out = out]
  /\ pc' = "cleanup"
  /\ UNCHANGED <<cur_task, is_busy, task, rc, out, rem, cacheVars, runnerVars, lockVars>>

\* run_task leaving the work directory behind
Cleanup_KeepsDir ==
  /\ pc = "cleanup"
  /\ pc' = IF rc # 0 THEN "count_failed" ELSE "delete"
  /\ UNCHANGED <<cur_task, is_busy, task, rc, out, rem, h, cacheVars, runnerVars, lockVars>>

\* run_task, lines 292-299
Cleanup ==
  /\ pc = "cleanup"
  /\ h' = [h EXCEPT !.workdir = "removed"]
  /\ pc' = IF rc # 0 THEN "count_failed" ELSE "delete"
  /\ UNCHANGED <<cur_task, is_busy, task, rc, out, rem, cacheVars, runnerVars, lockVars>>

\* run_task, lines 301-307: which of cancel_job and submit_retry_task is called
FailurePolicy(num_failed) ==
  IF num_failed > MaxFailedTasks THEN "cancel_job"
  ELSE IF task.attempt < task.max_retries THEN "submit_retry"
  ELSE "delete"

CountFailed ==
  /\ pc = "count_failed"
  /\ \E n \in FailedCounts :
       /\ h' = [h EXCEPT !.num_failed = n]
       /\ pc' = FailurePolicy(n)
  /\ UNCHANGED <<cur_task, is_busy, task, rc, out, rem, cacheVars, runnerVars, lockVars>>

\* cancel_job, lines 369-378: every failure is caught and written to stderr
CancelJob ==
  /\ pc = "cancel_job"
  /\ \E reply \in Replies : h' = [h EXCEPT !.call = "cancel", !.reply = reply]
  /\ pc' = "delete"
  /\ UNCHANGED <<cur_task, is_busy, task, rc, out, rem, cacheVars, runnerVars, lockVars>>

\* where submit_retry_task leaves the main thread: an exception of lines 384-385
\* is caught neither here, nor in run_task, nor in run
AfterRetryReply(reply) == IF reply = "ERR" THEN "crashed" ELSE "delete"

\* submit_retry_task, lines 380-389
SubmitRetryTask ==
  /\ pc = "submit_retry"
  /\ \E reply \in Replies :
       /\ pc' = AfterRetryReply(reply)
       /\ IF pc' = "crashed"
          THEN /\ h' = [h EXCEPT !.call = "retry", !.reply = reply]
               /\ UNCHANGED <<cache, hits>>
          ELSE /\ h' = [h EXCEPT !.call = "retry", !.reply = reply, !.puts = @ + 1]
               /\ cache' = RetryCachePut(cache, task.retry_id)
               /\ hits' = [hits EXCEPT ![task.retry_id] = 0]
  /\ UNCHANGED <<cur_task, is_busy, task, rc, out, rem, rcLast, runnerVars, lockVars>>

\* run, lines 420-424: run_task has returned (its locals are gone); delete the
\* reservation; a failure of delete is logged
Delete ==
  /\ pc = "delete"
  /\ h' = [h EXCEPT !.del = @ + 1]
  /\ rc' = RcNone
  /\ out' = "None"
  /\ rem' = 0
  /\ pc' = "clear"
  /\ UNCHANGED <<cur_task, is_busy, task, cacheVars, runnerVars, lockVars>>

\* run, lines 425-426: the reference to the ReservedTask is dropped
Clear ==
  /\ pc = "clear"
  /\ cur_task' = "None"
  /\ task' = NoTask
  /\ pc' = "loop_top"
  /\ UNCHANGED <<is_busy, rc, out, rem, h, cacheVars, runnerVars, lockVars>>

\* handle_sigterm, run by the interpreter between any two steps of the main thread
HandleSigterm ==
  /\ Alive
  /\ h' = IF cur_task # "None" THEN [h EXCEPT !.sigrel = @ + 1] ELSE h
  /\ pc' = "exited"
  /\ UNCHANGED <<cur_task, is_busy, task, rc, out, rem, cacheVars, runnerVars, lockVars>>

(***************************************************************************)
(* Slave.run_command_and_touch_task, on a clock of ticks.  Time passes     *)
(* only while the function is blocked in select.                           *)
(***************************************************************************)
\* the need of a child that ignores SIGTERM
Never == 0 - 1

\* seconds to ticks
Ticks(seconds) == seconds * TicksPerSecond

Needs == (0 .. Ticks(KILL_GRACE)) \cup {Never}

\* the exit statuses of a child that ends of its own accord
ExitCodes == {0, 1}

\* a counter that stops at 2: none, one, several
Bump(n) == IF n < 2 THEN n + 1 ELSE n

NoRun ==
  [terms |-> 0, term_at |-> -1, kills |-> 0, kill_at |-> -1,
   exit_at |-> -1, observed |-> FALSE, late_signal |-> FALSE, cut_short |-> FALSE,
   touches |-> 0, failure |-> "none", early |-> FALSE, status |-> RcNone, result |-> RcNone,
   idle_before |-> 0]

RunnerIdle ==
  /\ rpc = "idle"
  /\ rnow = 0
  /\ timeout = 0
  /\ child = "none"
  /\ need = Never
  /\ select_by = 0
  /\ last_touch = 0
  /\ rh = NoRun

\* lines 326-340: the child is started, last_touch is read and the loop entered
RunnerStart ==
  /\ rpc = "select"
  /\ rnow = 0
  /\ timeout \in 0 .. MaxTimeout
  /\ child = "running"
  /\ need \in Needs
  /\ select_by = Ticks(SELECT_TIMEOUT)
  /\ last_touch = 0
  /\ rh = NoRun

\* line 337, line 338: the two deadlines (last_touch is 0 when they are computed)
KillTermTime(t) == Ticks(t)

KillKillTime(t) == KillTermTime(t) + Ticks(KILL_GRACE)

\* line 350 and line 354: the conditions of terminate and of kill
SendsTerm(t, now) == t > 0 /\ now > KillTermTime(t)

\* kill compared with terminate's deadline
SendsKill_NoGrace(t, now) == t > 0 /\ now > KillTermTime(t)

\* the forced kill never sent
SendsKill_Never(t, now) == FALSE

SendsKill(t, now) == t > 0 /\ now > KillKillTime(t)

\* a heartbeat that waits one wake interval more
TouchDue_Late(now, last) == now - last > Ticks(TOUCH_INTERVAL) + Ticks(SELECT_TIMEOUT)

\* line 358: the condition of a heartbeat
TouchDue(now, last) == now - last > Ticks(TOUCH_INTERVAL)

\* the child is about to exit on the SIGTERM it got
TermExitDue ==
  /\ child = "running"
  /\ rh.term_at >= 0
  /\ need # Never
  /\ rnow >= rh.term_at + need

\* the child runs, has got SIGTERM and is on its way out, but has not had the
\* time it needs
WouldHaveExited ==
  /\ child = "running"
  /\ rh.term_at >= 0
  /\ need # Never
  /\ rnow < rh.term_at + need

\* a tick passes while select waits
Tick ==
  /\ rpc = "select"
  /\ rnow < select_by
  /\ rnow < Ticks(MaxTime)
  /\ ~TermExitDue
  /\ rnow' = rnow + 1
  /\ UNCHANGED <<rpc, timeout, child, need, select_by, last_touch, rh, cacheVars, mainVars, lockVars>>

\* the child exits of its own accord
NaturalExit ==
  /\ child = "running"
  /\ rpc \in {"select", "signals", "heartbeat"}
  /\ child' = "exited"
  /\ \E code \in ExitCodes : rh' = [rh EXCEPT !.exit_at = rnow, !.status = code]
  /\ UNCHANGED <<rpc, rnow, timeout, need, select_by, last_touch, cacheVars, mainVars, lockVars>>

\* the child exits because of the SIGTERM it got; Popen reports the signal negated
TermExit ==
  /\ TermExitDue
  /\ child' = "exited"
  /\ rh' = [rh EXCEPT !.exit_at = rnow, !.status = -15]
  /\ UNCHANGED <<rpc, rnow, timeout, need, select_by, last_touch, cacheVars, mainVars, lockVars>>

\* lines 340-348: select returns (on data, on end of file, or timed out), the
\* pipes are read and the child is polled.  A child that writes without end, or
\* that has closed its pipes, makes select return before its 2 s are over.
\* select reports no exceptional condition on a pipe: xlist is empty and the
\* loop is left only when poll finds the child exited.
SelectReturns ==
  /\ rpc = "select"
  /\ IF child = "exited"
     THEN /\ rpc' = "wait"
          /\ rh' = [rh EXCEPT !.observed = TRUE]
     ELSE /\ rpc' = "signals"
          /\ rh' = [rh EXCEPT !.early = @ \/ rnow < select_by]
  /\ UNCHANGED <<rnow, timeout, child, need, select_by, last_touch, cacheVars, mainVars, lockVars>>

\* lines 349-356: terminate and kill, each when its deadline has passed.  A child
\* that is killed exits.
Signals ==
  /\ rpc = "signals"
  /\ LET term == SendsTerm(timeout, rnow)
         kill == SendsKill(timeout, rnow)
     IN  /\ rh' = [rh EXCEPT
                    !.terms = IF term THEN Bump(@) ELSE @,
                    !.term_at = IF term /\ @ < 0 THEN rnow ELSE @,
                    !.kills = IF kill THEN Bump(@) ELSE @,
                    !.kill_at = IF kill /\ @ < 0 THEN rnow ELSE @,
                    !.exit_at = IF kill /\ child = "running" THEN rnow ELSE @,
                    !.status = IF kill /\ child = "running" THEN -9 ELSE @,
                    !.late_signal = @ \/ (rh.observed /\ (term \/ kill)),
                    !.cut_short = @ \/ (kill /\ WouldHaveExited)]
         /\ child' = IF kill THEN "exited" ELSE child
  /\ rpc' = "heartbeat"
  /\ UNCHANGED <<rnow, timeout, need, select_by, last_touch, cacheVars, mainVars, lockVars>>

\* lines 360-364: what a touch leaves in the history of the run: a touch that
\* raised, and a touch made after one that raised
AfterTouch(failure, ok) ==
  IF failure # "none" THEN "followed"
  ELSE IF ok THEN "none" ELSE "failed"

\* lines 358-365, and back to select: touch when due; an exception of touch is
\* logged and last_touch is set all the same
Heartbeat ==
  /\ rpc = "heartbeat"
  /\ IF TouchDue(rnow, last_touch)
     THEN /\ last_touch' = rnow
          /\ \E ok \in BOOLEAN :
               rh' = [rh EXCEPT !.touches = Bump(@), !.failure = AfterTouch(@, ok)]
     ELSE UNCHANGED <<last_touch, rh>>
  /\ select_by' = rnow + Ticks(SELECT_TIMEOUT)
  /\ rpc' = "select"
  /\ UNCHANGED <<rnow, timeout, child, need, cacheVars, mainVars, lockVars>>

\* line 367: p.wait() reaps the child and the function returns
Wait ==
  /\ rpc = "wait"
  /\ child = "exited"
  /\ rh' = [rh EXCEPT !.result = rh.status]
  /\ rpc' = "returned"
  /\ UNCHANGED <<rnow, timeout, child, need, select_by, last_touch, cacheVars, mainVars, lockVars>>

(***************************************************************************)
(* Slave.run_task from make_temp_dir to mark_task_finished, with the clock: *)
(* the two download commands of each attempt and the task's command are    *)
(* each one run of run_command_and_touch_task, whose clock starts at its   *)
(* Popen; rh.idle_before carries the time without a touch from one run to  *)
(* the next.                                                               *)
(***************************************************************************)
\* the ticks gone since the last touch of the reservation, or since run_task began
Idle == IF rh.touches > 0 THEN rnow - last_touch ELSE rh.idle_before + rnow

\* the carried time is not counted beyond the first value over the heartbeat's bound
IdleCap == Ticks(TOUCH_INTERVAL) + Ticks(SELECT_TIMEOUT) + 1

Capped(n) == IF n < IdleCap THEN n ELSE IdleCap

\* lines 326-340 for the next command: a new child, a new last_touch, and no touch
StartSubprocess(t, needs, idle) ==
  /\ rpc' = "select"
  /\ rnow' = 0
  /\ timeout' = t
  /\ child' = "running"
  /\ need' \in needs
  /\ select_by' = Ticks(SELECT_TIMEOUT)
  /\ last_touch' = 0
  /\ rh' = [NoRun EXCEPT !.idle_before = Capped(idle)]

\* the task whose run is followed
TheTask == [retry_id |-> 1, attempt |-> 0, max_retries |-> 0]

\* run_task at line 238, in the first download command of the first attempt.  A
\* download command is not signalled within the time the model follows it.
TaskStart ==
  /\ pc = "fetch_files"
  /\ cur_task = "Held"
  /\ is_busy = TRUE
  /\ task = TheTask
  /\ rc = RcNone
  /\ out = "None"
  /\ rem = NUM_DOWNLOAD_ATTEMPTS_PER_TASK - 1
  /\ h = [NoHistory EXCEPT !.lookup = "absent", !.disp = "executor",
                           !.mark_running = 1, !.verdict = "accepted",
                           !.workdir = "exists", !.downloads = 1]
  /\ rpc = "select"
  /\ rnow = 0
  /\ timeout = DOWNLOAD_TIMEOUT
  /\ child = "running"
  /\ need = Never
  /\ select_by = Ticks(SELECT_TIMEOUT)
  /\ last_touch = 0
  /\ rh = NoRun

\* lines 188-189 and 199-200 raising, and what the callers make of it: lines
\* 212-215 re-raise after the last attempt and run_task reports -2 (lines 240-246)
AttemptFailed ==
  /\ DownloadFailed
  /\ UNCHANGED <<rpc, rnow, timeout, child, need, select_by, last_touch, rh>>

\* lines 186-198: the first download command has returned; the second is started
FilesFetched ==
  /\ pc = "fetch_files"
  /\ rpc = "returned"
  /\ IF rh.result = 0
     THEN /\ pc' = "fetch_isolated"
          /\ StartSubprocess(DOWNLOAD_TIMEOUT, {Never}, Idle)
          /\ UNCHANGED <<rc, out>>
     ELSE AttemptFailed
  /\ UNCHANGED <<cur_task, is_busy, task, rem, h, cacheVars, lockVars>>

\* lines 199-205 and run_task lines 239-273: the second download command has
\* returned; after a success the task's command is started with the task's timeout
IsolatedFetched ==
  /\ pc = "fetch_isolated"
  /\ rpc = "returned"
  /\ IF rh.result = 0
     THEN /\ pc' = "running"
          /\ \E t \in 0 .. MaxTimeout : StartSubprocess(t, Needs, Idle)
          /\ h' = [h EXCEPT !.commands = @ + 1]
          /\ UNCHANGED <<rc, out>>
     ELSE /\ AttemptFailed
          /\ UNCHANGED h
  /\ UNCHANGED <<cur_task, is_busy, task, rem, cacheVars, lockVars>>

\* lines 216-220 and the next attempt's first command: rmtree, makedirs, a sleep
\* of 5 s in which nothing is touched, and Popen
RetrySleep ==
  /\ pc = "dl_sleep"
  /\ rem' = rem - 1
  /\ h' = [h EXCEPT !.workdir = "exists", !.downloads = @ + 1]
  /\ pc' = "fetch_files"
  /\ StartSubprocess(DOWNLOAD_TIMEOUT, {Never}, Idle + Ticks(RETRY_SLEEP))
  /\ UNCHANGED <<cur_task, is_busy, task, rc, out, cacheVars, lockVars>>

\* lines 270-280: the task's command has returned
CommandReturned ==
  /\ pc = "running"
  /\ rpc = "returned"
  /\ rc' = rh.result
  /\ out' = ReportedLogs(rh.result, "captured")
  /\ pc' = "mark_finished"
  /\ UNCHANGED <<cur_task, is_busy, task, rem, h, cacheVars, runnerVars, lockVars>>

(***************************************************************************)
(* Slave._get_exclusive_cache_dir, run by several worker processes on one   *)
(* host with one base path.  Each system call is a step of its own.  Other  *)
(* workers, started earlier and alive throughout, hold some of the locks.   *)
(***************************************************************************)
Workers == 1 .. NumWorkers

Candidates == 0 .. (NumCacheDirs - 1)

\* the holder of a lock nobody holds, and the workers started earlier
Free == 0

Other == NumWorkers + 1

\* cache_dir before __init__ assigns it
NoDir == 0 - 1

LockIdle ==
  /\ wpc = [w \in Workers |-> "idle"]
  /\ idx = [w \in Workers |-> 0]
  /\ isdir = {}
  /\ lockf = [c \in Candidates |-> Free]
  /\ cache_dir = [w \in Workers |-> NoDir]

\* the workers enter the function.  The directories are made in the order of the
\* loop and never removed, so those that exist are the first few; the earlier
\* workers hold the locks of the first few of them.
LockStart ==
  /\ wpc = [w \in Workers |-> "isdir"]
  /\ idx = [w \in Workers |-> 0]
  /\ \E made \in 0 .. NumCacheDirs :
       /\ isdir = 0 .. (made - 1)
       /\ \E held \in 0 .. made :
            lockf = [c \in Candidates |-> IF c < held THEN Other ELSE Free]
  /\ cache_dir = [w \in Workers |-> NoDir]

\* line 96: os.path.isdir
CheckDir(w) ==
  /\ wpc[w] = "isdir"
  /\ wpc' = [wpc EXCEPT ![w] = IF idx[w] \in isdir THEN "lockf" ELSE "makedirs"]
  /\ UNCHANGED <<idx, isdir, lockf, cache_dir, cacheVars, mainVars, runnerVars>>

\* line 97: os.makedirs raises when the directory exists by now; nothing catches
\* the exception and the process ends
MakeDirs(w) ==
  /\ wpc[w] = "makedirs"
  /\ IF idx[w] \in isdir
     THEN /\ wpc' = [wpc EXCEPT ![w] = "failed"]
          /\ UNCHANGED isdir
     ELSE /\ wpc' = [wpc EXCEPT ![w] = "lockf"]
          /\ isdir' = isdir \cup {idx[w]}
  /\ UNCHANGED <<idx, lockf, cache_dir, cacheVars, mainVars, runnerVars>>

\* the lock is given to every caller
LockGranted_Always(holder) == TRUE

\* line 100: lockf with LOCK_NB succeeds when no other process holds the lock
LockGranted(holder) == holder = Free

\* lines 98-111: open the lock file and try the lock; on contention close the
\* file and go on to the next candidate, or raise when there is none left
TryLock(w) ==
  /\ wpc[w] = "lockf"
  /\ IF LockGranted(lockf[idx[w]])
     THEN /\ lockf' = [lockf EXCEPT ![idx[w]] = w]
          /\ cache_dir' = [cache_dir EXCEPT ![w] = idx[w]]
          /\ wpc' = [wpc EXCEPT ![w] = "started"]
          /\ UNCHANGED idx
     ELSE /\ IF idx[w] + 1 < NumCacheDirs
             THEN /\ idx' = [idx EXCEPT ![w] = @ + 1]
                  /\ wpc' = [wpc EXCEPT ![w] = "isdir"]
             ELSE /\ wpc' = [wpc EXCEPT ![w] = "failed"]
                  /\ UNCHANGED idx
          /\ UNCHANGED <<lockf, cache_dir>>
  /\ UNCHANGED <<isdir, cacheVars, mainVars, runnerVars>>

\* the process of a started worker ends (os._exit of handle_sigterm, or an
\* uncaught exception): the system drops the locks it holds
WorkerExit(w) ==
  /\ wpc[w] = "started"
  /\ wpc' = [wpc EXCEPT ![w] = "exited"]
  /\ lockf' = [c \in Candidates |-> IF lockf[c] = w THEN Free ELSE lockf[c]]
  /\ UNCHANGED <<idx, isdir, cache_dir, cacheVars, mainVars, runnerVars>>

(***************************************************************************)
(* The specifications                                                      *)
(***************************************************************************)
vars == <<cacheVars, mainVars, runnerVars, lockVars>>

Init == CacheInit /\ MainInit /\ RunnerIdle /\ LockIdle

Next ==
  \/ LoopTop \/ ReserveOk \/ ReserveFails \/ ReserveSleep
  \/ Consult \/ BounceRelease \/ BounceSleep \/ Dispatch
  \/ MarkRunning \/ MakeTempDir \/ StartDownload \/ DownloadDone \/ DownloadSleep
  \/ StartCommand \/ Touch \/ CommandDone \/ MarkFinished \/ Cleanup
  \/ CountFailed \/ CancelJob \/ SubmitRetryTask
  \/ Delete \/ Clear
  \/ HandleSigterm

Spec == Init /\ [][Next]_vars

\* RetryCache alone, called directly
CallGet ==
  /\ \E item \in Items :
       /\ cache' = RetryCacheAfterGet(cache, item)
       /\ hits' = HitsAfterGet(cache, hits, item)
       /\ rcLast' = [op |-> "get", item |-> item, before |-> cache,
                     present |-> RetryCacheGet(cache, item)]
  /\ UNCHANGED <<mainVars, runnerVars, lockVars>>

CallPut ==
  /\ \E item \in Items :
       /\ cache' = RetryCachePut(cache, item)
       /\ hits' = [hits EXCEPT ![item] = 0]
       /\ rcLast' = [op |-> "put", item |-> item, before |-> cache, present |-> FALSE]
  /\ UNCHANGED <<mainVars, runnerVars, lockVars>>

NextCache == CallGet \/ CallPut

SpecCache == Init /\ [][NextCache]_vars

\* run_command_and_touch_task alone, for every timeout and every child
InitRunner == CacheInit /\ MainInit /\ RunnerStart /\ LockIdle

NextRunner ==
  \/ Tick \/ NaturalExit \/ TermExit
  \/ SelectReturns \/ Signals \/ Heartbeat \/ Wait

SpecRunner == InitRunner /\ [][NextRunner]_vars

\* run_task with its subprocesses, up to the call of mark_task_finished
InitTask == CacheInit /\ TaskStart /\ LockIdle

NextTask ==
  \/ NextRunner
  \/ FilesFetched \/ IsolatedFetched \/ RetrySleep \/ CommandReturned

SpecTask == InitTask /\ [][NextTask]_vars

\* _get_exclusive_cache_dir in NumWorkers processes at once
InitLock == CacheInit /\ MainInit /\ RunnerIdle /\ LockStart

NextLock == \E w \in Workers : CheckDir(w) \/ MakeDirs(w) \/ TryLock(w) \/ WorkerExit(w)

SpecLock == InitLock /\ [][NextLock]_vars

\* the same, with its scheduling: the function takes a step it can take, the
\* child that is due to exit on its SIGTERM exits, and the clock does not stop
\* while the function goes round its loop.  The child need never exit by itself.
FairSpecRunner ==
  /\ SpecRunner
  /\ WF_vars(SelectReturns \/ Signals \/ Heartbeat \/ Wait)
  /\ WF_vars(TermExit)
  /\ SF_vars(Tick)

(***************************************************************************)
(* The claims                                                              *)
(***************************************************************************)

\* C1: a reservation handed to run_task gets exactly one release or delete when no
\* termination signal arrives: never two, and one by the time the main thread is
\* back at the top of its loop or has ended.
C1_ExactlyOneReleaseOrDelete ==
  (h.disp = "executor" /\ pc # "exited") =>
     /\ h.rel + h.del <= 1
     /\ pc \in {"loop_top", "crashed"} => h.rel + h.del = 1

\* C2: no handle gets more than one release or delete call in all, the calls of
\* handle_sigterm counted.
C2_AtMostOneReleaseOrDelete == h.rel + h.sigrel + h.del <= 1

\* C3: when the retry_task POST or the cancel_job GET fails (exception or status
\* other than SUCCESS), run_task returns, the main loop goes on to delete the handle
\* and is back at the top of its loop with the handle deleted.
C3_MasterFailureRecovered ==
  h.reply \in {"FAIL", "ERR"} =>
     /\ pc \in {"delete", "clear", "loop_top", "exited"}
     /\ pc = "loop_top" => h.del = 1

\* C4: after put(r), at most MaxCount + 1 calls of get(r) return the item.
C4_AtMostMaxCountPlusOnePresent == \A r \in Items : hits[r] <= MaxCount + 1

\* C5: put on a full cache evicts the entry inserted first, keeps the others, and
\* leaves the new item in the cache with count 0.
C5_PutEvictsOldest ==
  (rcLast.op = "put" /\ Len(rcLast.before) = MaxSize) =>
     /\ Keys(cache) = (Keys(rcLast.before) \ {rcLast.before[1].item}) \cup {rcLast.item}
     /\ \E i \in DOMAIN cache : cache[i].item = rcLast.item /\ cache[i].count = 0

\* C6: the main loop bounces a retry id at most MaxCount + 2 times after the worker
\* put it into the cache; by then the id has left the cache, and a reservation whose
\* id the cache does not hold is not bounced.
C6_BouncesBounded ==
  /\ \A r \in RetryIds :
       /\ hits[r] <= MaxCount + 2
       /\ hits[r] = MaxCount + 2 => r \notin Keys(cache)
  /\ h.lookup = "absent" => (h.rel = 0 /\ pc \notin {"bounce", "bounce_sleep"})

C6_Witness ==
  /\ pc = "mark_running"
  /\ h.lookup = "absent"
  /\ hits[task.retry_id] = MaxCount + 2

\* C7: when run_task has ended: after a non-zero result, more than 100 failed tasks
\* mean cancel_job and no retry; otherwise a retry is submitted and the retry id put
\* into the cache exactly when attempt < max_retries; after a zero result there is
\* neither call and no put.
C7_FailurePolicy ==
  (h.finished = 1 /\ pc \in {"delete", "crashed"}) =>
     IF h.rep_rc = 0 THEN h.call = "none" /\ h.puts = 0
     ELSE IF h.num_failed > MaxFailedTasks THEN h.call = "cancel" /\ h.puts = 0
     ELSE /\ h.call # "cancel"
          /\ (h.call = "retry" /\ h.puts = 1) <=> (task.attempt < task.max_retries)

\* C8: at most 3 download attempts per task; when all fail the command is never
\* started, mark_finished is called once, with -2 and the error message, and the main
\* loop deletes the handle without releasing it.
C8_DownloadFailureReported ==
  /\ h.downloads <= NUM_DOWNLOAD_ATTEMPTS_PER_TASK
  /\ h.commands > 0 => pc \notin {"download", "downloading", "dl_sleep"}
  /\ (pc # "exited" /\ (rc = -2 \/ h.rep_rc = -2)) =>
       /\ h.downloads = NUM_DOWNLOAD_ATTEMPTS_PER_TASK
       /\ h.commands = 0
       /\ h.rel = 0
       /\ pc # "mark_finished" => (h.finished = 1 /\ h.rep_rc = -2 /\ h.rep_out = "dl_error")
       /\ pc \in {"loop_top", "crashed"} => h.del = 1

\* C9: a reservation whose retry id the cache reports present is released, not
\* deleted, with no mark_running call and no subprocess, and the main thread goes
\* back to reserve; one reported absent is handed to run_task.
C9_BounceOrDispatch ==
  /\ h.lookup = "present" =>
       /\ h.del = 0 /\ h.mark_running = 0 /\ h.downloads = 0 /\ h.commands = 0
       /\ h.disp # "executor"
       /\ pc \in {"bounce", "bounce_sleep", "loop_top", "reserve", "reserve_sleep", "exited"}
       /\ pc \notin {"bounce", "exited"} => (h.rel = 1 /\ h.disp = "bounced")
  /\ h.lookup = "absent" =>
       /\ h.rel = 0
       /\ pc \notin {"dispatch", "exited"} => h.disp = "executor"
  /\ h.disp = "bounced" => h.lookup = "present"
  /\ h.disp = "executor" => h.lookup = "absent"

C9_Witness == pc = "reserve" /\ h.disp = "bounced" /\ h.rel = 1

\* C10 (as amended): terminate is sent only with timeout > 0 and after the timeout;
\* kill only after timeout + 5 s; no signal once the child was seen exited; and the
\* child that exits within timeout + 5 s of its start is not sent a kill.
C10_EscalationByDeadline ==
  /\ rh.terms > 0 => (timeout > 0 /\ rh.term_at > Ticks(timeout))
  /\ rh.kills > 0 => (timeout > 0 /\ rh.kill_at > Ticks(timeout) + Ticks(KILL_GRACE))
  /\ ~rh.late_signal
  /\ (rh.exit_at >= 0 /\ rh.exit_at <= Ticks(timeout) + Ticks(KILL_GRACE)) => rh.kills = 0

C10_Witness ==
  /\ rpc = "returned"
  /\ rh.terms > 0
  /\ rh.exit_at > rh.term_at
  /\ rh.exit_at <= Ticks(timeout) + Ticks(KILL_GRACE)
  /\ rh.kills = 0

\* C10 (as claimed): the same, with the grace counted from the graceful signal: a
\* child that exits within 5 s of getting SIGTERM is not sent a kill before it does.
C10_EscalationBySignal ==
  /\ rh.terms > 0 => (timeout > 0 /\ rh.term_at > Ticks(timeout))
  /\ rh.kills > 0 => (timeout > 0 /\ rh.kill_at > Ticks(timeout) + Ticks(KILL_GRACE))
  /\ ~rh.late_signal
  /\ (need # Never /\ need <= Ticks(KILL_GRACE)) => ~rh.cut_short

\* C11: with timeout > 0 run_command_and_touch_task returns in the end, whatever
\* the child does (it may ignore SIGTERM, and make select return at once for ever);
\* it returns only when the child has exited and p.wait() has reaped it, and its
\* result code is the child's exit status.
C11_ReturnsAfterReaping ==
  /\ [](rpc = "returned" =>
         (child = "exited" /\ rh.status # RcNone /\ rh.result = rh.status))
  /\ [](rh.result # RcNone => rpc = "returned")
  /\ [](timeout > 0 => <>(rpc = "returned"))

C11_Witness ==
  /\ rpc = "returned"
  /\ timeout > 0
  /\ need = Never
  /\ rh.early
  /\ rh.kills > 0
  /\ rh.result = -9

\* C12: while the function supervises the child, a wake that finds more than 10 s
\* gone since the last touch (or the start) touches, so that no more than 10 s plus
\* one wait of select pass without a touch; and a touch that raised leaves the
\* signals to their deadlines, the result to the child's status, and the later
\* heartbeats to the same rule.
C12_HeartbeatGapBounded ==
  /\ rpc \in {"select", "signals", "heartbeat"} =>
       rnow - last_touch <= Ticks(TOUCH_INTERVAL) + Ticks(SELECT_TIMEOUT)
  /\ rpc = "select" =>
       (select_by - Ticks(SELECT_TIMEOUT)) - last_touch <= Ticks(TOUCH_INTERVAL)
  /\ rh.failure # "none" =>
       /\ rh.terms > 0 => SendsTerm(timeout, rh.term_at)
       /\ rh.kills > 0 => SendsKill(timeout, rh.kill_at)
       /\ rh.status \in {-15, -9} => rh.terms > 0
       /\ rpc = "returned" => rh.result = rh.status

C12_Witness ==
  /\ rpc = "returned"
  /\ rh.touches = 2
  /\ rh.failure = "followed"
  /\ rh.result = 0

\* C13: no two live workers own the same cache directory, and none owns one that
\* an earlier worker holds; a worker that completed startup holds the lock of its
\* directory and of no other until its process ends, and a worker that did not
\* holds none.
C13_CacheDirExclusive ==
  /\ \A v, w \in Workers :
       (v # w /\ wpc[v] = "started" /\ wpc[w] = "started") => cache_dir[v] # cache_dir[w]
  /\ \A w \in Workers :
       IF wpc[w] = "started"
       THEN /\ cache_dir[w] \in Candidates
            /\ {c \in Candidates : lockf[c] = w} = {cache_dir[w]}
       ELSE {c \in Candidates : lockf[c] = w} = {}
  /\ \A c \in Candidates :
       lockf[c] = Other => \A w \in Workers : wpc[w] = "started" => cache_dir[w] # c

C13_Witness ==
  /\ \A w \in Workers : wpc[w] = "started"
  /\ lockf[0] = Other
  /\ \E w \in Workers : idx[w] > 1

\* C19: the startup of a worker fails only when the other live workers hold all
\* the locks.
C19_StartupFailsOnlyWhenAllHeld ==
  \A w \in Workers :
    wpc[w] = "failed" => \A c \in Candidates : lockf[c] \notin {Free, w}

\* C14: a work directory, a download, a command, a touch or a mark_finished call
\* is there only once mark_running has answered accepted; after the answer canceled
\* run_task has made none of them and no release, and is back in the main loop,
\* which deletes the reservation.
C14_MarkRunningGates ==
  /\ (h.workdir # "none" \/ h.downloads > 0 \/ h.commands > 0 \/ h.touched
        \/ h.finished > 0) => (h.verdict = "accepted" /\ h.mark_running = 1)
  /\ pc \in {"make_dir", "download", "downloading", "dl_sleep", "start_cmd", "running"}
       => h.verdict = "accepted"
  /\ h.verdict = "canceled" =>
       /\ h.workdir = "none" /\ h.downloads = 0 /\ h.commands = 0
       /\ h.finished = 0 /\ ~h.touched /\ h.rel = 0
       /\ pc \in {"delete", "clear", "loop_top", "exited"}
       /\ pc = "delete" => h.del = 0
       /\ pc \in {"clear", "loop_top"} => h.del = 1

C14_Witness ==
  /\ pc = "loop_top"
  /\ h.verdict = "canceled"
  /\ h.del = 1
  /\ h.sigrel = 0

C17_LogsOnlyOnFailure ==
  h.finished > 0 =>
    /\ h.rep_rc # RcNone
    /\ h.rep_rc = 0 => h.rep_out = "None"
    /\ h.rep_rc = -2 => (h.rep_out = "dl_error" /\ h.commands = 0)
    /\ h.rep_rc \notin {0, -2} => (h.rep_out = "captured" /\ h.commands = 1)

C17_Witness ==
  /\ h.finished = 1
  /\ h.rep_rc = 0
  /\ h.rep_out = "None"
  /\ h.commands = 1

\* C16: after any sequence of put and get calls the cache holds at most MaxSize
\* entries, one per item.
C16_SizeBounded ==
  /\ Len(cache) <= MaxSize
  /\ Cardinality(Keys(cache)) = Len(cache)

C16_Witness ==
  /\ rcLast.op = "put"
  /\ Len(rcLast.before) = MaxSize
  /\ rcLast.item \notin Keys(rcLast.before)
  /\ \E i \in DOMAIN rcLast.before : rcLast.before[i].count > 0
  /\ Len(cache) = MaxSize

\* C18: in one run SIGTERM is sent, and the line "Killing task after ... seconds"
\* appended, at most once, however many times the function wakes before the
\* child has exited.
C18_TerminateOnce == rh.terms <= 1

\* C20: from the start of run_task to the call of mark_finished - across the
\* download commands, the sleeps between download attempts and the task's command -
\* no more than 10 s plus one wait of select pass without a touch of the
\* reservation.
C20_KeepAliveAcrossTask ==
  pc \in {"fetch_files", "fetch_isolated", "dl_sleep", "running", "mark_finished"} =>
    Idle <= Ticks(TOUCH_INTERVAL) + Ticks(SELECT_TIMEOUT)

====
